---- MODULE Spec2Model ----
(***************************************************************************)
(* The WebSocket signaling relay of src/routes.ts (lines 487-570): the     *)
(* connectedClients registry, the per-connection handlers for 'pong',      *)
(* 'message' and 'close', the 30 s ping sweep and the clearing of its      *)
(* interval.  Every handler runs to completion on the single event loop,   *)
(* so each is one atomic action.                                           *)
(***************************************************************************)
EXTENDS Integers, Sequences, FiniteSets, TLC

\* Number of connections that are ever accepted in a behaviour.
NConn == 2

Conns == 1..NConn

\* JavaScript's undefined: an absent property, an unset ws.userId, the
\* result of Map.get on a missing key.
Undefined == "undefined"

\* The identities clients use in userId, from and to.
Ids == {"u1", "u2"}

\* JavaScript truthiness of a property that is a string or undefined.
Truthy(v) == v # Undefined /\ v # ""

(***************************************************************************)
(* Frames.  A text is the character content of a frame: unparseable        *)
(* ("garbage"), the JSON literal null, or a JSON object with the           *)
(* properties the relay reads plus a payload property sdp.  An inbound     *)
(* message is a Buffer holding a text; what the relay sends is a string.   *)
(***************************************************************************)
Obj(t, f, to, u, s) ==
    [type |-> t, message |-> Undefined, from |-> f, to |-> to, userId |-> u, sdp |-> s]

\* The JSON value null.
Null == [null |-> TRUE]

\* JSON.stringify of an object of the shapes above.
JSONstringify(obj) == [kind |-> "object", body |-> obj]

NullText == [kind |-> "null", body |-> Null]

Garbage == [kind |-> "garbage", body |-> Null]

\* JSON.parse: throws a SyntaxError on text that is not JSON, and else
\* yields the value the text denotes.
JSONparse(s) == [threw |-> s.kind = "garbage", value |-> s.body]

\* The objects the clients of the model send.
ClientObjects ==
    \* register envelopes: a userId that is an identity or empty
    {Obj("register", Undefined, Undefined, u, Undefined) : u \in Ids \cup {""}}
    \* register envelopes that also carry routing fields, with and without
    \* a userId
    \cup {Obj("register", "u2", "u1", u, Undefined) : u \in {"u2", Undefined}}
    \* signal envelopes, every from/to pair, with a payload
    \cup {Obj("offer", f, t, Undefined, "abc") : f \in Ids, t \in Ids}
    \cup {Obj("offer", "u2", "u1", "u2", "abc")}
    \* envelopes lacking one routing field (absent or empty), or all
    \cup {Obj(Undefined, "u2", "u1", Undefined, "abc"),
          Obj("offer", "", "u1", Undefined, "abc"),
          Obj("offer", "u2", Undefined, Undefined, "abc"),
          Obj(Undefined, Undefined, Undefined, Undefined, Undefined)}

ClientTexts == {JSONstringify(o) : o \in ClientObjects} \cup {NullText, Garbage}

\* The inbound messages: Buffers (ws hands the handler the frame's bytes).
Messages == [buffer : ClientTexts]

\* message.toString()
toString(message) == message.buffer

(***************************************************************************)
(* State.                                                                  *)
(*   readyState[c]     ws.readyState; "NONE" before the connection is      *)
(*                     accepted                                            *)
(*   userId[c]         ws.userId                                           *)
(*   isAlive[c]        ws.isAlive                                          *)
(*   connectedClients  the Map from identity to connection                 *)
(*   pingInterval      "active" until clearInterval, then "cleared"        *)
(*   last              history: the handler that ran last, the message it  *)
(*                     was given, the branch it took and what it wrote     *)
(*   acked             history: the connections of wss.clients that were   *)
(*                     accepted or had a pong handled since the last tick  *)
(*                     of the interval                                     *)
(*   prev              history: whether the handler before that one        *)
(*                     registered a connection, forwarded a signal or      *)
(*                     answered one with the error envelope, and which     *)
(***************************************************************************)
VARIABLES readyState, userId, isAlive, connectedClients, pingInterval, last, prev,
          acked

vars == <<readyState, userId, isAlive, connectedClients, pingInterval, last, prev,
          acked>>

\* wss.clients: ws adds a connection when it is accepted and removes it when
\* its 'close' event is emitted.
wssClients == {c \in Conns : readyState[c] \in {"OPEN", "CLOSING"}}

\* Mutant of MapSet: an identity that is already registered keeps its entry.
MapSet_KeepFirst(map, k, v) == IF k \in DOMAIN map THEN map ELSE (k :> v) @@ map

\* Map.prototype.set / delete / has
MapSet(map, k, v) == (k :> v) @@ map

MapDelete(map, k) == [x \in DOMAIN map \ {k} |-> map[x]]

MapHas(map, k) == k \in DOMAIN map

\* What a handler run leaves in the history.
Event(op, c, m, branch, sent, pings, reaped) ==
    [op |-> op, conn |-> c, msg |-> m, branch |-> branch,
     sent |-> sent, pings |-> pings, reaped |-> reaped]

\* The summary kept of the handler before the last one: whether it was a
\* registration, and then of which connection under which identity, or a
\* signal that was forwarded or answered with the error envelope, and then
\* from which connection to which identity.
Summary(e) ==
    CASE e.branch = "register" ->
           [branch |-> "register", conn |-> e.conn,
            key |-> JSONparse(toString(e.msg[1])).value.userId]
      [] e.branch \in {"error", "forward"} ->
           [branch |-> e.branch, conn |-> e.conn,
            key |-> JSONparse(toString(e.msg[1])).value.to]
      [] OTHER -> [branch |-> "other", conn |-> 0, key |-> Undefined]

Init ==
    /\ readyState = [c \in Conns |-> "NONE"]
    /\ userId = [c \in Conns |-> Undefined]
    /\ isAlive = [c \in Conns |-> FALSE]
    /\ connectedClients = <<>>
    /\ pingInterval = "active"
    /\ last = Event("start", 0, <<>>, "none", <<>>, {}, {})
    /\ prev = Summary(Event("start", 0, <<>>, "none", <<>>, {}, {}))
    /\ acked = {}

\* wss.on('connection'): a new connection is accepted.  Connections are
\* numbered in the order they are accepted, and none is accepted once the
\* server has closed.
Connection(c) ==
    /\ readyState[c] = "NONE"
    /\ \A d \in Conns : d < c => readyState[d] # "NONE"
    /\ pingInterval = "active"
    /\ readyState' = [readyState EXCEPT ![c] = "OPEN"]
    /\ isAlive' = [isAlive EXCEPT ![c] = TRUE]
    /\ last' = Event("connection", c, <<>>, "none", <<>>, {}, {})
    /\ prev' = Summary(last)
    /\ acked' = acked \cup {c}
    /\ UNCHANGED <<userId, connectedClients, pingInterval>>

\* Mutant of Pong: the flag is not set.
Pong_FlagNotSet(c) ==
    /\ readyState[c] \in {"OPEN", "CLOSING"}
    /\ last' = Event("pong", c, <<>>, "none", <<>>, {}, {})
    /\ prev' = Summary(last)
    /\ acked' = acked \cup {c}
    /\ UNCHANGED <<readyState, userId, isAlive, connectedClients, pingInterval>>

\* ws.on('pong')
Pong(c) ==
    /\ readyState[c] \in {"OPEN", "CLOSING"}
    /\ isAlive' = [isAlive EXCEPT ![c] = TRUE]
    /\ last' = Event("pong", c, <<>>, "none", <<>>, {}, {})
    /\ prev' = Summary(last)
    /\ acked' = acked \cup {c}
    /\ UNCHANGED <<readyState, userId, connectedClients, pingInterval>>

\* Mutant of IsRegister: data.userId is not tested.
IsRegister_TypeOnly(data) == data.type = "register"

\* data.type === 'register' && data.userId
IsRegister(data) == data.type = "register" /\ Truthy(data.userId)

\* Mutant of IsSignal: data.type is not tested.
IsSignal_TypeNotTested(data) == Truthy(data.from) /\ Truthy(data.to)

\* Mutant of IsSignal: only offers are signals.
IsSignal_OnlyOffers(data) ==
    data.type = "offer" /\ Truthy(data.from) /\ Truthy(data.to)

\* data.type && data.from && data.to
IsSignal(data) == Truthy(data.type) /\ Truthy(data.from) /\ Truthy(data.to)

\* Mutant of RecipientOpen: the recipient must have answered its ping.
RecipientOpen_RequiresAlive(data) ==
    /\ MapHas(connectedClients, data.to)
    /\ readyState[connectedClients[data.to]] = "OPEN"
    /\ isAlive[connectedClients[data.to]] = TRUE

\* Mutant of RecipientOpen: the recipient's readyState is not tested.
RecipientOpen_StateNotTested(data) == MapHas(connectedClients, data.to)

\* recipient && recipient.readyState === WebSocket.OPEN, for
\* recipient = connectedClients.get(data.to)
RecipientOpen(data) ==
    /\ MapHas(connectedClients, data.to)
    /\ readyState[connectedClients[data.to]] = "OPEN"

\* Mutant of ErrorEnvelope: addressed to the recipient that was looked up.
ErrorEnvelope_ToRecipient(data) ==
    JSONstringify([type |-> "error", message |-> "Recipient not available",
                   from |-> "server", to |-> data.to,
                   userId |-> Undefined, sdp |-> Undefined])

\* The reply to the sender of a signal that cannot be forwarded.
ErrorEnvelope(data) ==
    JSONstringify([type |-> "error", message |-> "Recipient not available",
                   from |-> "server", to |-> data.from,
                   userId |-> Undefined, sdp |-> Undefined])

\* One write to a connection: ws.send(data).
Send(c, data) == [to |-> c, data |-> data]

\* Mutant of Signaling: a forward is held back by one message, so that what
\* is written is the signal forwarded before this one, if there was one.
Signaling_HeldBack(c, message, data) ==
    IF RecipientOpen(data)
    THEN <<Send(connectedClients[data.to],
                IF last.branch = "forward" THEN toString(last.msg[1])
                ELSE toString(message))>>
    ELSE IF readyState[c] = "OPEN"
         THEN <<Send(c, ErrorEnvelope(data))>>
         ELSE <<>>

\* Mutant of Signaling: no reply when the signal cannot be forwarded.
Signaling_NoReply(c, message, data) ==
    IF RecipientOpen(data)
    THEN <<Send(connectedClients[data.to], toString(message))>>
    ELSE <<>>

\* Mutant of Signaling: forwards the parsed routing fields serialised anew,
\* so the payload is lost.
Signaling_Reserialized(c, message, data) ==
    IF RecipientOpen(data)
    THEN <<Send(connectedClients[data.to],
                JSONstringify(Obj(data.type, data.from, data.to, Undefined, Undefined)))>>
    ELSE IF readyState[c] = "OPEN"
         THEN <<Send(c, ErrorEnvelope(data))>>
         ELSE <<>>

\* Mutant of Signaling: the error envelope is written to the connection the
\* Registry holds for data.from, when it holds an open one.
Signaling_ErrorViaRegistry(c, message, data) ==
    IF RecipientOpen(data)
    THEN <<Send(connectedClients[data.to], toString(message))>>
    ELSE IF MapHas(connectedClients, data.from)
            /\ readyState[connectedClients[data.from]] = "OPEN"
         THEN <<Send(connectedClients[data.from], ErrorEnvelope(data))>>
         ELSE IF readyState[c] = "OPEN"
              THEN <<Send(c, ErrorEnvelope(data))>>
              ELSE <<>>

\* Mutant of Signaling: the error envelope is written whatever the
\* readyState of the sender.
Signaling_ReplyUnguarded(c, message, data) ==
    IF RecipientOpen(data)
    THEN <<Send(connectedClients[data.to], toString(message))>>
    ELSE <<Send(c, ErrorEnvelope(data))>>

\* The signaling branch: the writes it makes, in order.
Signaling(c, message, data) ==
    IF RecipientOpen(data)
    THEN <<Send(connectedClients[data.to], toString(message))>>
    ELSE IF readyState[c] = "OPEN"
         THEN <<Send(c, ErrorEnvelope(data))>>
         ELSE <<>>

\* The branch of the 'message' handler that a message takes.
Branch(c, message) ==
    LET parsed == JSONparse(toString(message))
        data == parsed.value
    IN  CASE parsed.threw -> "threw"          \* SyntaxError, caught
          [] data = Null -> "threw"           \* TypeError on data.type, caught
          [] IsRegister(data) -> "register"
          [] IsSignal(data) ->
               IF RecipientOpen(data) THEN "forward"
               ELSE IF readyState[c] = "OPEN" THEN "error" ELSE "unsent"
          [] OTHER -> "ignored"

\* Mutant of Message: a registration is handed the signal that was answered
\* with the error envelope just before, if it was addressed to its identity.
Message_RegisterFlushes(c, message) ==
    LET data == JSONparse(toString(message)).value
        branch == Branch(c, message)
    IN  /\ readyState[c] \in {"OPEN", "CLOSING"}
        /\ IF branch = "register"
           THEN /\ userId' = [userId EXCEPT ![c] = data.userId]
                /\ connectedClients' = MapSet(connectedClients, data.userId, c)
           ELSE UNCHANGED <<userId, connectedClients>>
        /\ last' = Event("message", c, <<message>>, branch,
                         IF branch \in {"forward", "error", "unsent"}
                         THEN Signaling(c, message, data)
                         ELSE IF /\ branch = "register"
                                 /\ last.branch = "error"
                                 /\ JSONparse(toString(last.msg[1])).value.to = data.userId
                              THEN <<Send(c, toString(last.msg[1]))>> ELSE <<>>,
                         {}, {})
        /\ prev' = Summary(last)
        /\ UNCHANGED <<readyState, isAlive, pingInterval, acked>>

\* Mutant of Message: a signal registers its sender under data.from.
Message_SignalRegisters(c, message) ==
    LET data == JSONparse(toString(message)).value
        branch == Branch(c, message)
    IN  /\ readyState[c] \in {"OPEN", "CLOSING"}
        /\ IF branch = "register"
           THEN /\ userId' = [userId EXCEPT ![c] = data.userId]
                /\ connectedClients' = MapSet(connectedClients, data.userId, c)
           ELSE IF branch \in {"forward", "error", "unsent"}
                THEN /\ userId' = [userId EXCEPT ![c] = data.from]
                     /\ connectedClients' = MapSet(connectedClients, data.from, c)
                ELSE UNCHANGED <<userId, connectedClients>>
        /\ last' = Event("message", c, <<message>>, branch,
                         IF branch \in {"forward", "error", "unsent"}
                         THEN Signaling(c, message, data) ELSE <<>>,
                         {}, {})
        /\ prev' = Summary(last)
        /\ UNCHANGED <<readyState, isAlive, pingInterval, acked>>

\* Mutant of Message: a registration is acknowledged with an echo.
Message_AcksRegister(c, message) ==
    LET data == JSONparse(toString(message)).value
        branch == Branch(c, message)
    IN  /\ readyState[c] \in {"OPEN", "CLOSING"}
        /\ IF branch = "register"
           THEN /\ userId' = [userId EXCEPT ![c] = data.userId]
                /\ connectedClients' = MapSet(connectedClients, data.userId, c)
           ELSE UNCHANGED <<userId, connectedClients>>
        /\ last' = Event("message", c, <<message>>, branch,
                         IF branch \in {"forward", "error", "unsent"}
                         THEN Signaling(c, message, data)
                         ELSE IF branch = "register"
                              THEN <<Send(c, toString(message))>> ELSE <<>>,
                         {}, {})
        /\ prev' = Summary(last)
        /\ UNCHANGED <<readyState, isAlive, pingInterval, acked>>

\* ws.on('message').  ws emits the messages it has buffered for a
\* connection also after the connection has begun to close.
Message(c, message) ==
    LET data == JSONparse(toString(message)).value
        branch == Branch(c, message)
    IN  /\ readyState[c] \in {"OPEN", "CLOSING"}
        /\ IF branch = "register"
           THEN /\ userId' = [userId EXCEPT ![c] = data.userId]
                /\ connectedClients' = MapSet(connectedClients, data.userId, c)
           ELSE UNCHANGED <<userId, connectedClients>>
        /\ last' = Event("message", c, <<message>>, branch,
                         IF branch \in {"forward", "error", "unsent"}
                         THEN Signaling(c, message, data) ELSE <<>>,
                         {}, {})
        /\ prev' = Summary(last)
        /\ UNCHANGED <<readyState, isAlive, pingInterval, acked>>

\* The peer begins to close (a close frame arrives, or the socket ends or
\* fails): ws sets readyState to CLOSING; no handler of the relay runs.
Closing(c) ==
    /\ readyState[c] = "OPEN"
    /\ readyState' = [readyState EXCEPT ![c] = "CLOSING"]
    /\ last' = Event("closing", c, <<>>, "none", <<>>, {}, {})
    /\ prev' = Summary(last)
    /\ UNCHANGED <<userId, isAlive, connectedClients, pingInterval, acked>>

\* Mutant of Close: the departure is announced to the connections the
\* Registry holds.
Close_Notifies(c) ==
    /\ readyState[c] \in {"OPEN", "CLOSING"}
    /\ readyState' = [readyState EXCEPT ![c] = "CLOSED"]
    /\ connectedClients' = IF Truthy(userId[c])
                           THEN MapDelete(connectedClients, userId[c])
                           ELSE connectedClients
    /\ last' = Event("close", c, <<>>, "none",
                     IF \E k \in DOMAIN connectedClients' :
                           readyState[connectedClients'[k]] = "OPEN"
                     THEN LET k == CHOOSE k \in DOMAIN connectedClients' :
                                      readyState[connectedClients'[k]] = "OPEN"
                          IN  <<Send(connectedClients'[k],
                                     JSONstringify(Obj("peer-left", "server", k,
                                                       userId[c], Undefined)))>>
                     ELSE <<>>,
                     {}, {})
    /\ prev' = Summary(last)
    /\ acked' = acked \ {c}
    /\ UNCHANGED <<userId, isAlive, pingInterval>>

\* Mutant of Close: the whole Registry is cleared.
Close_ClearsRegistry(c) ==
    /\ readyState[c] \in {"OPEN", "CLOSING"}
    /\ readyState' = [readyState EXCEPT ![c] = "CLOSED"]
    /\ connectedClients' = IF Truthy(userId[c]) THEN <<>> ELSE connectedClients
    /\ last' = Event("close", c, <<>>, "none", <<>>, {}, {})
    /\ prev' = Summary(last)
    /\ acked' = acked \ {c}
    /\ UNCHANGED <<userId, isAlive, pingInterval>>

\* ws.on('close'): the connection is closed; ws has set readyState to
\* CLOSED and removed it from wss.clients.
Close(c) ==
    /\ readyState[c] \in {"OPEN", "CLOSING"}
    /\ readyState' = [readyState EXCEPT ![c] = "CLOSED"]
    /\ connectedClients' = IF Truthy(userId[c])
                           THEN MapDelete(connectedClients, userId[c])
                           ELSE connectedClients
    /\ last' = Event("close", c, <<>>, "none", <<>>, {}, {})
    /\ prev' = Summary(last)
    /\ acked' = acked \ {c}
    /\ UNCHANGED <<userId, isAlive, pingInterval>>

\* Mutant of Dead: only registered connections are found dead.
Dead_OnlyRegistered ==
    {c \in wssClients : isAlive[c] = FALSE /\ Truthy(userId[c])}

\* The connections the sweep finds dead: ws.isAlive === false.
Dead == {c \in wssClients : isAlive[c] = FALSE}

\* Mutant of Tick: a connection that is pinged is not marked.
Tick_NotMarked ==
    /\ pingInterval = "active"
    /\ connectedClients' =
         [k \in {x \in DOMAIN connectedClients :
                    ~ \E c \in Dead : Truthy(userId[c]) /\ userId[c] = x}
            |-> connectedClients[k]]
    /\ readyState' = [c \in Conns |-> IF c \in Dead THEN "CLOSING" ELSE readyState[c]]
    /\ last' = Event("tick", 0, <<>>, "none", <<>>,
                     {c \in wssClients \ Dead : readyState[c] = "OPEN"}, Dead)
    /\ prev' = Summary(last)
    /\ acked' = {}
    /\ UNCHANGED <<userId, pingInterval, isAlive>>

\* The callback of pingInterval: every connection of wss.clients found dead
\* is unregistered and terminated; every other one is marked and pinged
\* (ws.ping writes nothing to a connection that is not open).
Tick ==
    /\ pingInterval = "active"
    /\ connectedClients' =
         [k \in {x \in DOMAIN connectedClients :
                    ~ \E c \in Dead : Truthy(userId[c]) /\ userId[c] = x}
            |-> connectedClients[k]]
    /\ readyState' = [c \in Conns |-> IF c \in Dead THEN "CLOSING" ELSE readyState[c]]
    /\ isAlive' = [c \in Conns |-> IF c \in wssClients \ Dead THEN FALSE ELSE isAlive[c]]
    /\ last' = Event("tick", 0, <<>>, "none", <<>>,
                     {c \in wssClients \ Dead : readyState[c] = "OPEN"}, Dead)
    /\ prev' = Summary(last)
    /\ acked' = {}
    /\ UNCHANGED <<userId, pingInterval>>

\* Mutant of ServerClose: the interval is not cleared.
ServerClose_IntervalKept ==
    /\ pingInterval = "active"
    /\ last' = Event("serverClose", 0, <<>>, "none", <<>>, {}, {})
    /\ prev' = Summary(last)
    /\ UNCHANGED <<readyState, userId, isAlive, connectedClients, acked, pingInterval>>

\* wss.on('close'): the server has closed; the interval is cleared.
ServerClose ==
    /\ pingInterval = "active"
    /\ pingInterval' = "cleared"
    /\ last' = Event("serverClose", 0, <<>>, "none", <<>>, {}, {})
    /\ prev' = Summary(last)
    /\ UNCHANGED <<readyState, userId, isAlive, connectedClients, acked>>

Next ==
    \/ \E c \in Conns : Connection(c)
    \/ \E c \in Conns : Pong(c)
    \/ \E c \in Conns, m \in Messages : Message(c, m)
    \/ \E c \in Conns : Closing(c)
    \/ \E c \in Conns : Close(c)
    \/ Tick
    \/ ServerClose

Spec == Init /\ [][Next]_vars

(***************************************************************************)
(* Vocabulary of the properties, stated on the frames themselves.          *)
(***************************************************************************)
NonEmpty(v) == v \notin {Undefined, ""}

\* A Register envelope: type "register" with a non-empty userId.
RegisterEnvelope(m) ==
    /\ m.buffer.kind = "object"
    /\ m.buffer.body.type = "register"
    /\ NonEmpty(m.buffer.body.userId)

\* A Signal envelope: non-empty type, from and to (and not a Register
\* envelope, which the relay recognises first).
SignalEnvelope(m) ==
    /\ m.buffer.kind = "object"
    /\ NonEmpty(m.buffer.body.type)
    /\ NonEmpty(m.buffer.body.from)
    /\ NonEmpty(m.buffer.body.to)
    /\ ~ RegisterEnvelope(m)

\* {type:"error", message:"Recipient not available", from:"server", to:t}
ErrorText(t) ==
    [kind |-> "object",
     body |-> [type |-> "error", message |-> "Recipient not available",
               from |-> "server", to |-> t, userId |-> Undefined, sdp |-> Undefined]]

\* The handler that ran last was given message m by connection c.
Received(e, c, m) == e.op = "message" /\ e.conn = c /\ e.msg = <<m>>

\* The handler that ran last registered connection c as identity id.
Registered(e, c, id) ==
    /\ e.op = "message" /\ e.conn = c
    /\ RegisterEnvelope(e.msg[1]) /\ e.msg[1].buffer.body.userId = id

\* The connections the Registry holds.
InRegistry == {connectedClients[k] : k \in DOMAIN connectedClients}

SignalMessages == {m \in Messages : SignalEnvelope(m)}

(***************************************************************************)
(* C1.  As claimed: for all identities A and B, if a connection a          *)
(* registers as A, then another connection b registers as B, and then b    *)
(* sends a Signal envelope with to = A while a is open, the relay writes   *)
(* exactly one message, to a, and it is the text b sent.                   *)
(***************************************************************************)
C1_Scenario(a, b, A, B) ==
    /\ a # b
    /\ prev = [branch |-> "register", conn |-> a, key |-> A]
    /\ Registered(last, b, B)
    /\ last'.op = "message" /\ last'.conn = b
    /\ SignalEnvelope(last'.msg[1])
    /\ last'.msg[1].buffer.body.to = A
    /\ readyState[a] = "OPEN"

C1_Delivered(a) == last'.sent = <<[to |-> a, data |-> last'.msg[1].buffer]>>

\* C1 as claimed, for all identities A and B: after a registers as A and
\* then b registers as B, b's Signal to A is written to a, unchanged, and
\* nothing else is written.
C1_AnyIdentities ==
    [][\A a, b \in Conns, A, B \in Ids :
          C1_Scenario(a, b, A, B) => C1_Delivered(a)]_vars

\* C1 as amended: the same for all distinct identities A and B.  (With
\* A = B the second registration replaces the first and b receives its own
\* envelope.)
C1_DistinctIdentities ==
    [][\A a, b \in Conns, A, B \in Ids :
          C1_Scenario(a, b, A, B) /\ A # B => C1_Delivered(a)]_vars

\* b has registered and then had its Signal forwarded to another
\* connection, registered under the identity the Signal names.
C1_Witness ==
    /\ last.op = "message" /\ last.branch = "forward"
    /\ prev.branch = "register" /\ prev.conn = last.conn
    /\ Len(last.sent) = 1
    /\ last.sent[1].to # last.conn
    /\ last.sent[1].data.body.sdp = "abc"
    /\ userId[last.sent[1].to] = last.msg[1].buffer.body.to
    /\ prev.key # last.msg[1].buffer.body.to

(***************************************************************************)
(* C2.  After connection a1 and then connection a2 register as the same    *)
(* identity I, a Signal addressed to I is never written to a1, and is      *)
(* written to a2 (and to no one else) when a2 is open.                     *)
(***************************************************************************)
C2_SameIdentityReplaces ==
    [][\A a1, a2 \in Conns, I \in Ids :
          ( /\ a1 # a2
            /\ prev = [branch |-> "register", conn |-> a1, key |-> I]
            /\ Registered(last, a2, I)
            /\ last'.op = "message"
            /\ SignalEnvelope(last'.msg[1])
            /\ last'.msg[1].buffer.body.to = I )
          => /\ \A i \in DOMAIN last'.sent :
                    last'.sent[i].data = last'.msg[1].buffer => last'.sent[i].to = a2
             /\ readyState[a2] = "OPEN" =>
                    last'.sent = <<[to |-> a2, data |-> last'.msg[1].buffer]>>]_vars

\* A Signal was forwarded to the connection that registered last, while
\* another open connection carries the same identity.
C2_Witness ==
    /\ last.op = "message" /\ last.branch = "forward"
    /\ prev.branch = "register"
    /\ prev.key = last.msg[1].buffer.body.to
    /\ last.sent = <<[to |-> prev.conn, data |-> last.msg[1].buffer]>>
    /\ \E a1 \in Conns : a1 # prev.conn /\ userId[a1] = prev.key
                          /\ readyState[a1] = "OPEN"

(***************************************************************************)
(* C3.  As claimed: a Signal to an identity that is not in the Registry    *)
(* yields exactly one outbound message, the error envelope with            *)
(* to = the envelope's from, written to the connection that sent it.       *)
(***************************************************************************)
C3_Unregistered ==
    /\ last'.op = "message"
    /\ SignalEnvelope(last'.msg[1])
    /\ last'.msg[1].buffer.body.to \notin DOMAIN connectedClients

C3_ErrorReply ==
    last'.sent = <<[to |-> last'.conn, data |-> ErrorText(last'.msg[1].buffer.body.from)]>>

\* C3 as claimed: a Signal to an unregistered identity always yields exactly
\* the one error envelope, written to its sender.
C3_AlwaysOneError == [][C3_Unregistered => C3_ErrorReply]_vars

\* C3 as amended: exactly that one message when the sending connection is
\* open, and no message at all when it is no longer open.
C3_OneErrorIfSenderOpen ==
    [][C3_Unregistered =>
          IF readyState[last'.conn] = "OPEN" THEN C3_ErrorReply
          ELSE last'.sent = <<>>]_vars

\* An open connection sent a Signal to an unregistered identity and got the
\* error envelope; the envelope's from is not the sender's own identity.
C3_Witness ==
    /\ last.op = "message" /\ SignalEnvelope(last.msg[1])
    /\ last.msg[1].buffer.body.to \notin DOMAIN connectedClients
    /\ readyState[last.conn] = "OPEN"
    /\ last.sent = <<[to |-> last.conn, data |-> ErrorText(last.msg[1].buffer.body.from)]>>
    /\ userId[last.conn] # last.msg[1].buffer.body.from

(***************************************************************************)
(* C4.  In every reachable state a connection is in the Registry if and    *)
(* only if it has completed registration and has not yet disconnected.     *)
(* Read in the claim's favour on the timing of a disconnect: a connection  *)
(* in the Registry has registered and its close has not been handled, and  *)
(* a connection that has registered and is open is in the Registry.        *)
(***************************************************************************)
C4_RegistryIffRegistered ==
    \A c \in Conns :
       /\ c \in InRegistry => Truthy(userId[c]) /\ readyState[c] # "CLOSED"
       /\ Truthy(userId[c]) /\ readyState[c] = "OPEN" => c \in InRegistry

(***************************************************************************)
(* C5.  A registered connection that has acknowledged no probe since the   *)
(* previous tick is, at the next tick, terminated and absent from the      *)
(* Registry; a Signal addressed to its identity right afterwards is not    *)
(* forwarded and its (open) sender gets the error envelope.                *)
(***************************************************************************)
C5_Unresponsive(c) ==
    /\ c \in wssClients /\ c \notin acked /\ Truthy(userId[c])
    /\ last'.op = "tick"

C5_SignalToReaped(c) ==
    /\ last.op = "tick" /\ c \in last.reaped /\ Truthy(userId[c])
    /\ last'.op = "message"
    /\ SignalEnvelope(last'.msg[1])
    /\ last'.msg[1].buffer.body.to = userId[c]
    /\ readyState[last'.conn] = "OPEN"

\* C5: an unresponsive registered connection is terminated at the tick and
\* is then absent from the Registry, and a Signal to its identity right
\* afterwards is answered with the error envelope.
C5_ReapedAndAbsent ==
    [][\A c \in Conns :
          /\ C5_Unresponsive(c) =>
                /\ c \in last'.reaped /\ readyState'[c] # "OPEN"
                /\ c \notin InRegistry'
          /\ C5_SignalToReaped(c) => C3_ErrorReply]_vars

(***************************************************************************)
(* C6.  A connection that has been accepted, or has had a pong handled,    *)
(* since the previous tick is not terminated by the sweep.                 *)
(***************************************************************************)
C6_AckedNeverReaped ==
    [][\A c \in Conns :
          c \in acked /\ last'.op = "tick" =>
             c \notin last'.reaped /\ readyState'[c] = readyState[c]]_vars

\* A tick that probed an open connection again while it terminated another.
C6_Witness ==
    /\ last.op = "tick"
    /\ \E c, d \in Conns :
          /\ c \in last.pings /\ readyState[c] = "OPEN" /\ isAlive[c] = FALSE
          /\ d \in last.reaped

(***************************************************************************)
(* C7.  An inbound frame that is not parseable, or is neither a Register   *)
(* nor a Signal envelope, produces no outbound message, does not close     *)
(* the sender, and leaves the Registry, every identity and every liveness  *)
(* flag unchanged.                                                         *)
(***************************************************************************)
Malformed(m) == ~ RegisterEnvelope(m) /\ ~ SignalEnvelope(m)

\* C7: handling a malformed frame writes nothing and changes no connection,
\* identity, liveness flag or Registry entry.
C7_MalformedIgnored ==
    [][last'.op = "message" /\ Malformed(last'.msg[1]) =>
          /\ last'.sent = <<>>
          /\ UNCHANGED <<readyState, connectedClients, userId, isAlive>>]_vars

\* An open, registered connection sent a frame lacking a routing field.
C7_Witness ==
    /\ last.op = "message" /\ Malformed(last.msg[1])
    /\ last.msg[1].buffer.kind = "object"
    /\ NonEmpty(last.msg[1].buffer.body.to)
    /\ readyState[last.conn] = "OPEN"
    /\ last.conn \in InRegistry

(***************************************************************************)
(* C8.  Scenario: x registers as u1, y registers as u2, y sends a Signal   *)
(* to u1 and x receives it; once x's disconnect has been handled, the      *)
(* same Signal sent again by y (still open) is delivered to no one and y   *)
(* receives the error envelope with to = "u2" and from = "server".         *)
(***************************************************************************)
C8_Offer == [buffer |-> JSONstringify(Obj("offer", "u2", "u1", Undefined, "abc"))]

\* C8: the first offer is written to x; after x's close, the same offer is
\* answered to y with the error envelope addressed to "u2".
C8_Scenario ==
    [][\A x, y \in Conns :
          /\ ( /\ x # y
               /\ prev = [branch |-> "register", conn |-> x, key |-> "u1"]
               /\ Registered(last, y, "u2")
               /\ readyState[x] = "OPEN"
               /\ Received(last', y, C8_Offer) )
             => last'.sent = <<[to |-> x, data |-> C8_Offer.buffer]>>
          /\ ( /\ x # y
               /\ userId[x] = "u1" /\ userId[y] = "u2"
               /\ last.op = "close" /\ last.conn = x
               /\ readyState[y] = "OPEN"
               /\ Received(last', y, C8_Offer) )
             => last'.sent = <<[to |-> y, data |-> ErrorText("u2")]>>]_vars

\* y, registered as u2, got the error envelope for the offer to u1 after
\* the close of x, registered as u1, was handled.
C8_Witness ==
    \E x, y \in Conns :
       /\ x # y
       /\ userId[x] = "u1" /\ userId[y] = "u2"
       /\ readyState[x] = "CLOSED"
       /\ Received(last, y, C8_Offer)
       /\ last.sent = <<[to |-> y, data |-> ErrorText("u2")]>>

(***************************************************************************)
(* C9.  Handling the close of connection c removes the Registry entry of   *)
(* c's identity, if c has one, and changes nothing else: the entries of    *)
(* all other identities, and every identity, liveness flag and the open    *)
(* status of every other connection are unchanged.                         *)
(***************************************************************************)
C9_CloseFrame ==
    [][\A c \in Conns :
          last'.op = "close" /\ last'.conn = c =>
             /\ DOMAIN connectedClients' = DOMAIN connectedClients \ {userId[c]}
             /\ \A k \in DOMAIN connectedClients' :
                    connectedClients'[k] = connectedClients[k]
             /\ \A d \in Conns \ {c} : readyState'[d] = readyState[d]
             /\ UNCHANGED <<userId, isAlive, pingInterval>>
             /\ last'.sent = <<>>]_vars

\* The close of a registered connection was handled and the entry of
\* another identity is still in the Registry.
C9_Witness ==
    /\ last.op = "close"
    /\ Truthy(userId[last.conn])
    /\ userId[last.conn] \notin DOMAIN connectedClients
    /\ \E k \in DOMAIN connectedClients : connectedClients[k] # last.conn

(***************************************************************************)
(* C10.  When connection c sends a malformed frame, closes, or is          *)
(* terminated by the sweep, every other connection d that is open,         *)
(* registered and reachable under its identity stays open and reachable.   *)
(***************************************************************************)
C10_EventOf(c, d) ==
    \/ last'.op = "message" /\ last'.conn = c /\ Malformed(last'.msg[1])
    \/ last'.op = "close" /\ last'.conn = c
    \/ last'.op = "tick" /\ c \in last'.reaped /\ d \notin last'.reaped

Reachable(map, rs, d) ==
    /\ rs[d] = "OPEN"
    /\ Truthy(userId[d])
    /\ userId[d] \in DOMAIN map
    /\ map[userId[d]] = d

\* C10: a malformed frame, a close or a reaping of c leaves every other
\* open, reachable connection d open and reachable.
C10_OthersUnaffected ==
    [][\A c, d \in Conns :
          c # d /\ Reachable(connectedClients, readyState, d) /\ C10_EventOf(c, d)
          => Reachable(connectedClients', readyState', d)]_vars

(***************************************************************************)
(* C11.  Signals from one sender to one recipient are forwarded in the     *)
(* order received.  Every write is made by the handler of the message      *)
(* being handled, so the writes to a connection are in the order of the    *)
(* handler runs: when s's envelope m1 has been forwarded to r and s's      *)
(* next envelope m2 is addressed to r too, handling m2 writes m2 (and      *)
(* nothing else) to r; and no handler ever writes a client's envelope      *)
(* other than the one it is handling.                                      *)
(***************************************************************************)
Forwarded(e, s, r) ==
    /\ e.op = "message" /\ e.conn = s
    /\ SignalEnvelope(e.msg[1])
    /\ e.sent = <<[to |-> r, data |-> e.msg[1].buffer]>>

\* C11: forwards are written in the order their envelopes are handled.
C11_ForwardedInOrder ==
    [][/\ \A s, r \in Conns :
            ( /\ Forwarded(last, s, r)
              /\ last'.op = "message" /\ last'.conn = s
              /\ SignalEnvelope(last'.msg[1])
              /\ last'.msg[1].buffer.body.to \in DOMAIN connectedClients
              /\ connectedClients[last'.msg[1].buffer.body.to] = r
              /\ readyState[r] = "OPEN" )
            => Forwarded(last', s, r)
       /\ \A i \in DOMAIN last'.sent :
            last'.sent[i].data \in ClientTexts =>
               last'.op = "message" /\ last'.sent[i].data = last'.msg[1].buffer]_vars

\* Two different envelopes of one sender were forwarded, one after the
\* other, to the same recipient.
C11_Witness ==
    \E s, r \in Conns :
       /\ s # r
       /\ Forwarded(last, s, r)
       /\ prev = [branch |-> "forward", conn |-> s,
                  key |-> last.msg[1].buffer.body.to]
       /\ last.msg[1].buffer.body.userId = "u2"

(***************************************************************************)
(* C12.  The liveness state machine: the flag is true after the            *)
(* connection is accepted and after each pong; a tick terminates every     *)
(* connection of the server whose flag is false and removes the Registry   *)
(* entry of its identity, and sets the flag of every other one to false,   *)
(* sending one probe to each that is open (ws.ping writes nothing to a     *)
(* connection that is closing); so no connection is terminated             *)
(* by the first tick after its acceptance or after a pong.                 *)
(***************************************************************************)
C12_LivenessMachine ==
    [][/\ last'.op \in {"connection", "pong"} => isAlive'[last'.conn] = TRUE
       /\ last'.op = "tick" =>
            \A c \in wssClients :
               /\ isAlive[c] = FALSE =>
                     /\ c \in last'.reaped /\ readyState'[c] = "CLOSING"
                     /\ Truthy(userId[c]) => userId[c] \notin DOMAIN connectedClients'
               /\ isAlive[c] = TRUE =>
                     /\ c \notin last'.reaped /\ readyState'[c] = readyState[c]
                     /\ isAlive'[c] = FALSE
                     /\ readyState[c] = "OPEN" => c \in last'.pings
               /\ c \in acked => c \notin last'.reaped]_vars

\* C12 as worded: a tick sends a probe to every connection whose flag is
\* true, whatever its state.
C12_EveryMarkedProbed ==
    [][last'.op = "tick" =>
          \A c \in wssClients : isAlive[c] = TRUE => c \in last'.pings]_vars

\* A tick that terminated a registered connection, removing its entry, and
\* probed another one.
C12_Witness ==
    /\ last.op = "tick"
    /\ \E c, d \in Conns :
          /\ c \in last.pings /\ isAlive[c] = FALSE
          /\ d \in last.reaped /\ readyState[d] = "CLOSING"
          /\ Truthy(userId[d]) /\ userId[d] \notin DOMAIN connectedClients

(***************************************************************************)
(* C13.  Once the server's 'close' event has been handled the interval is  *)
(* cleared, and while it is cleared no tick runs: no connection is probed  *)
(* or terminated by the sweep.                                             *)
(***************************************************************************)
C13_TimerCancelled ==
    /\ last.op = "serverClose" => pingInterval = "cleared"
    /\ pingInterval = "cleared" =>
          last.op # "tick" /\ last.pings = {} /\ last.reaped = {}

\* After the server closed, a connection whose flag is false is still open
\* and still handled a message.
C13_Witness ==
    /\ pingInterval = "cleared"
    /\ last.op = "message"
    /\ readyState[last.conn] = "OPEN" /\ isAlive[last.conn] = FALSE

(***************************************************************************)
(* C14.  A Register envelope {type:"register", userId:I} from connection   *)
(* c sets c's identity to I and maps I to c in the Registry, overwriting   *)
(* any entry for I; no message is written, no connection changes its       *)
(* readyState (the superseded connection is not closed), no other          *)
(* connection's identity changes and the entries of the other identities   *)
(* are unchanged.                                                          *)
(***************************************************************************)
C14_RegisterStep ==
    /\ last'.op = "message"
    /\ RegisterEnvelope(last'.msg[1])

\* C14: the frame effect of a Register envelope.
C14_RegisterEffect ==
    [][C14_RegisterStep =>
          LET c == last'.conn
              I == last'.msg[1].buffer.body.userId
          IN  /\ userId'[c] = I
              /\ DOMAIN connectedClients' = DOMAIN connectedClients \cup {I}
              /\ connectedClients'[I] = c
              /\ \A k \in DOMAIN connectedClients \ {I} :
                    connectedClients'[k] = connectedClients[k]
              /\ last'.sent = <<>>
              /\ readyState' = readyState
              /\ \A d \in Conns \ {c} : userId'[d] = userId[d]]_vars

\* A connection registered as an identity that another, still open,
\* connection held in the Registry, while the Registry has an entry for
\* another identity too.
C14_Witness ==
    \E c, d \in Conns :
       /\ c # d
       /\ Registered(last, c, userId[c])
       /\ prev = [branch |-> "register", conn |-> d, key |-> userId[c]]
       /\ userId[d] = userId[c] /\ readyState[d] = "OPEN"
       /\ connectedClients[userId[c]] = c
       /\ \E k \in DOMAIN connectedClients : k # userId[c]

(***************************************************************************)
(* C15.  As claimed: when the Registry holds an entry for the Signal's     *)
(* to, but the connection of that entry is not open, nothing is written    *)
(* to it and the sender is written the error envelope; the handler does    *)
(* not throw.                                                              *)
(***************************************************************************)
C15_RecipientNotOpen ==
    /\ last'.op = "message"
    /\ SignalEnvelope(last'.msg[1])
    /\ last'.msg[1].buffer.body.to \in DOMAIN connectedClients
    /\ readyState[connectedClients[last'.msg[1].buffer.body.to]] # "OPEN"

C15_ErrorToSender ==
    /\ last'.sent = <<[to |-> last'.conn,
                       data |-> ErrorText(last'.msg[1].buffer.body.from)]>>
    /\ last'.branch # "threw"

\* C15 as claimed: the sender always receives the error envelope.
C15_AlwaysErrorToSender == [][C15_RecipientNotOpen => C15_ErrorToSender]_vars

\* C15 as amended: the sender receives the error envelope when it is open;
\* when it is no longer open nothing is written at all.  In both cases the
\* handler does not throw.
C15_ErrorIfSenderOpen ==
    [][C15_RecipientNotOpen =>
          IF readyState[last'.conn] = "OPEN" THEN C15_ErrorToSender
          ELSE last'.sent = <<>> /\ last'.branch # "threw"]_vars

\* An open connection sent a Signal to an identity whose Registry entry is
\* another connection, which is not open, and got the error envelope.
C15_Witness ==
    /\ last.op = "message" /\ SignalEnvelope(last.msg[1])
    /\ last.msg[1].buffer.body.to \in DOMAIN connectedClients
    /\ connectedClients[last.msg[1].buffer.body.to] # last.conn
    /\ readyState[connectedClients[last.msg[1].buffer.body.to]] # "OPEN"
    /\ readyState[last.conn] = "OPEN"
    /\ last.sent = <<[to |-> last.conn, data |-> ErrorText(last.msg[1].buffer.body.from)]>>

(***************************************************************************)
(* C16.  Every message the relay writes is the text of the Signal          *)
(* envelope being handled or the error envelope; acceptance, pong, close,  *)
(* the sweep, and the handling of a Register envelope or of a message      *)
(* that is no envelope write nothing.                                      *)
(***************************************************************************)
C16_OnlySignalsAndErrors ==
    /\ last.op # "message" => last.sent = <<>>
    /\ last.op = "message" /\ ~ SignalEnvelope(last.msg[1]) => last.sent = <<>>
    /\ \A i \in DOMAIN last.sent :
          \/ last.sent[i].data = last.msg[1].buffer
          \/ last.sent[i].data = ErrorText(last.msg[1].buffer.body.from)

\* The sweep terminated a registered connection and removed its entry while
\* another registered connection is open, and wrote nothing.
C16_Witness ==
    /\ last.op = "tick" /\ last.sent = <<>>
    /\ \E c, d \in Conns :
          /\ c # d
          /\ d \in last.reaped /\ Truthy(userId[d])
          /\ userId[d] \notin DOMAIN connectedClients
          /\ readyState[c] = "OPEN" /\ c \in InRegistry

(***************************************************************************)
(* C17.  As claimed: every inbound envelope with non-empty type, from and  *)
(* to, whatever its type and its other fields, results in a forward to     *)
(* the Registry's connection for to or in an error reply to its sender.    *)
(***************************************************************************)
RoutingFields(m) ==
    /\ m.buffer.kind = "object"
    /\ NonEmpty(m.buffer.body.type)
    /\ NonEmpty(m.buffer.body.from)
    /\ NonEmpty(m.buffer.body.to)

C17_Forward ==
    /\ last'.msg[1].buffer.body.to \in DOMAIN connectedClients
    /\ last'.sent = <<[to |-> connectedClients[last'.msg[1].buffer.body.to],
                       data |-> last'.msg[1].buffer]>>

C17_ErrorReply ==
    last'.sent = <<[to |-> last'.conn,
                    data |-> ErrorText(last'.msg[1].buffer.body.from)]>>

\* C17 as claimed: any envelope with non-empty type, from and to is
\* forwarded or answered with the error envelope.
C17_AnyEnvelopeRouted ==
    [][last'.op = "message" /\ RoutingFields(last'.msg[1])
          => C17_Forward \/ C17_ErrorReply]_vars

\* C17 as amended: an envelope with non-empty type, from and to that is not
\* a Register envelope (type "register" with a non-empty userId) is
\* forwarded to the Registry's connection for to when that is open, else
\* answered with the error envelope when its sender is open, else dropped;
\* the Registry and the identities are unchanged.  A Register envelope that
\* carries from and to is handled as a registration and not routed.
C17_RoutedUnlessRegister ==
    [][last'.op = "message" /\ RoutingFields(last'.msg[1]) =>
          LET to == last'.msg[1].buffer.body.to
          IN  IF RegisterEnvelope(last'.msg[1])
              THEN /\ last'.sent = <<>>
                   /\ connectedClients'[last'.msg[1].buffer.body.userId] = last'.conn
              ELSE /\ IF to \in DOMAIN connectedClients
                         /\ readyState[connectedClients[to]] = "OPEN"
                      THEN C17_Forward
                      ELSE IF readyState[last'.conn] = "OPEN"
                           THEN C17_ErrorReply
                           ELSE last'.sent = <<>>
                   /\ UNCHANGED <<connectedClients, userId>>]_vars

\* An envelope of type "register" that has no userId was forwarded, right
\* after another envelope was.
C17_Witness ==
    /\ last.op = "message" /\ RoutingFields(last.msg[1])
    /\ last.msg[1].buffer.body.type = "register"
    /\ last.msg[1].buffer.body.userId = Undefined
    /\ last.msg[1].buffer.body.to \in DOMAIN connectedClients
    /\ last.sent = <<[to |-> connectedClients[last.msg[1].buffer.body.to],
                      data |-> last.msg[1].buffer]>>
    /\ prev.branch = "forward"

(***************************************************************************)
(* C18.  The error envelope is written to the connection that sent the     *)
(* Signal, never to a connection looked up in the Registry.  Handling a    *)
(* Signal changes neither the Registry nor a readyState, so the state      *)
(* after the handler shows what the handler found: when the Signal was     *)
(* undeliverable, every write went to the sender and is the error          *)
(* envelope, and an open sender got exactly that one.                      *)
(***************************************************************************)
Undeliverable(m) ==
    \/ m.buffer.body.to \notin DOMAIN connectedClients
    \/ readyState[connectedClients[m.buffer.body.to]] # "OPEN"

\* C18: the error envelope goes to the physical sender only.
C18_ErrorToPhysicalSender ==
    last.op = "message" /\ SignalEnvelope(last.msg[1]) /\ Undeliverable(last.msg[1])
    => /\ \A i \in DOMAIN last.sent :
            /\ last.sent[i].to = last.conn
            /\ last.sent[i].data = ErrorText(last.msg[1].buffer.body.from)
       /\ readyState[last.conn] = "OPEN" => Len(last.sent) = 1

\* A connection that has not registered sent an undeliverable Signal whose
\* from is the identity of another connection, open and in the Registry,
\* and the error envelope went to the sender.
C18_Witness ==
    /\ last.op = "message" /\ SignalEnvelope(last.msg[1])
    /\ Undeliverable(last.msg[1])
    /\ userId[last.conn] = Undefined
    /\ \E d \in Conns :
          /\ d # last.conn /\ readyState[d] = "OPEN"
          /\ last.msg[1].buffer.body.from \in DOMAIN connectedClients
          /\ connectedClients[last.msg[1].buffer.body.from] = d
    /\ last.sent = <<[to |-> last.conn,
                      data |-> ErrorText(last.msg[1].buffer.body.from)]>>

(***************************************************************************)
(* C19.  Fire-and-forget: handling a Signal writes at most one message;    *)
(* a handler writes no client's envelope but the one it is handling; and   *)
(* the registration of identity I right after a Signal to I was answered   *)
(* with the error envelope writes nothing.                                 *)
(***************************************************************************)
C19_FireAndForget ==
    [][/\ last'.op = "message" /\ SignalEnvelope(last'.msg[1]) => Len(last'.sent) <= 1
       /\ \A i \in DOMAIN last'.sent :
            \/ last'.sent[i].data = last'.msg[1].buffer
            \/ last'.sent[i].data = ErrorText(last'.msg[1].buffer.body.from)
       /\ ( /\ last.op = "message" /\ SignalEnvelope(last.msg[1])
            /\ last.sent = <<[to |-> last.conn,
                              data |-> ErrorText(last.msg[1].buffer.body.from)]>>
            /\ last'.op = "message" /\ RegisterEnvelope(last'.msg[1])
            /\ last'.msg[1].buffer.body.userId = last.msg[1].buffer.body.to )
          => last'.sent = <<>>]_vars

\* A Signal to an identity was answered with the error envelope, then an
\* open connection registered as that identity, and nothing was written.
C19_Witness ==
    /\ last.op = "message" /\ RegisterEnvelope(last.msg[1])
    /\ prev.branch = "error"
    /\ prev.key = last.msg[1].buffer.body.userId
    /\ prev.conn # last.conn
    /\ readyState[last.conn] = "OPEN"
    /\ last.sent = <<>>

(***************************************************************************)
(* C20.  A reconnect: connection new is registered as I, and is the        *)
(* Registry's connection for I, while an older connection old that         *)
(* registered as I is still there.  When old then closes, or is            *)
(* terminated by the sweep, new is still open and still the Registry's     *)
(* connection for I.                                                       *)
(***************************************************************************)
C20_Reconnected(old, new) ==
    /\ old # new
    /\ old \in wssClients
    /\ Truthy(userId[old]) /\ userId[old] = userId[new]
    /\ Reachable(connectedClients, readyState, new)

C20_OldGoes(old, new) ==
    \/ last'.op = "close" /\ last'.conn = old
    \/ last'.op = "tick" /\ old \in last'.reaped /\ new \notin last'.reaped

\* C20: the reconnected connection stays reachable under I when the older
\* one closes or is reaped.
C20_ReconnectStaysReachable ==
    [][\A old, new \in Conns :
          C20_Reconnected(old, new) /\ C20_OldGoes(old, new)
          => Reachable(connectedClients', readyState', new)]_vars

(***************************************************************************)
(* C21.  The relay never writes to a connection that is not open.          *)
(* Handling a message changes no readyState, so the state after the        *)
(* handler shows the readyState each write found: every write went to an   *)
(* open connection, and an undeliverable Signal of a sender that is no     *)
(* longer open produced no write at all.                                   *)
(***************************************************************************)
C21_WritesOnlyToOpen ==
    /\ \A i \in DOMAIN last.sent : readyState[last.sent[i].to] = "OPEN"
    /\ ( /\ last.op = "message" /\ SignalEnvelope(last.msg[1])
         /\ Undeliverable(last.msg[1])
         /\ readyState[last.conn] # "OPEN" )
       => last.sent = <<>>

\* A connection that is closing sent a Signal to an identity whose Registry
\* entry is a connection that is not open, and nothing was written.
C21_Witness ==
    /\ last.op = "message" /\ SignalEnvelope(last.msg[1])
    /\ last.msg[1].buffer.body.to \in DOMAIN connectedClients
    /\ readyState[connectedClients[last.msg[1].buffer.body.to]] # "OPEN"
    /\ readyState[last.conn] = "CLOSING"
    /\ last.sent = <<>>

(***************************************************************************)
(* C22.  In every reachable state every Registry entry I -> c has          *)
(* userId[c] = I, so that a connection is under at most one key.           *)
(***************************************************************************)
C22_KeysAgree ==
    /\ \A k \in DOMAIN connectedClients : userId[connectedClients[k]] = k
    /\ \A k1, k2 \in DOMAIN connectedClients :
          connectedClients[k1] = connectedClients[k2] => k1 = k2

(***************************************************************************)
(* C23.  Handling a Signal envelope, whether it is forwarded, answered     *)
(* with the error envelope or dropped, changes no state of the relay.      *)
(***************************************************************************)
C23_SignalChangesNothing ==
    [][last'.op = "message" /\ SignalEnvelope(last'.msg[1])
          => UNCHANGED <<connectedClients, userId, isAlive, readyState,
                         pingInterval>>]_vars

\* A registered connection had a Signal forwarded, and then one answered
\* with the error envelope whose from is not its identity; it still has its
\* identity and its Registry entry.
C23_Witness ==
    /\ last.op = "message" /\ SignalEnvelope(last.msg[1])
    /\ last.branch = "error"
    /\ prev.branch = "forward" /\ prev.conn = last.conn
    /\ Truthy(userId[last.conn])
    /\ userId[last.conn] # last.msg[1].buffer.body.from
    /\ Reachable(connectedClients, readyState, last.conn)

(***************************************************************************)
(* C24.  As claimed: a connection that never registered is covered by the  *)
(* sweep: at each tick it is sent a probe when its flag is true and it is  *)
(* terminated when its flag is false, and a tick that terminates only      *)
(* connections without an identity leaves the Registry unchanged.          *)
(***************************************************************************)
C24_Unregistered(c) == c \in wssClients /\ userId[c] = Undefined

C24_Terminated(c) ==
    /\ c \in last'.reaped /\ c \notin last'.pings
    /\ readyState'[c] = "CLOSING"

C24_RegistryKept ==
    (\A d \in last'.reaped : userId[d] = Undefined)
    => connectedClients' = connectedClients

\* C24 as claimed: every unregistered connection whose flag is true is
\* sent a probe at the tick, whatever its state.
C24_ProbedOnEachTick ==
    [][last'.op = "tick" =>
          /\ \A c \in Conns : C24_Unregistered(c) =>
                IF isAlive[c] = FALSE THEN C24_Terminated(c)
                ELSE c \in last'.pings /\ c \notin last'.reaped
          /\ C24_RegistryKept]_vars

\* C24 as amended: an unregistered connection whose flag is true has its
\* flag set to false and, when it is open, is sent a probe (ws.ping writes
\* nothing to a connection that is closing).
C24_SweepCoversUnregistered ==
    [][last'.op = "tick" =>
          /\ \A c \in Conns : C24_Unregistered(c) =>
                IF isAlive[c] = FALSE THEN C24_Terminated(c)
                ELSE /\ c \notin last'.reaped /\ isAlive'[c] = FALSE
                     /\ readyState'[c] = readyState[c]
                     /\ c \in last'.pings <=> readyState[c] = "OPEN"
          /\ C24_RegistryKept]_vars

\* The sweep terminated a connection that never registered, and the
\* Registry still holds another connection, which is open.
C24_Witness ==
    /\ last.op = "tick"
    /\ \E c, d \in Conns :
          /\ d \in last.reaped /\ userId[d] = Undefined
          /\ last.reaped = {d}
          /\ Reachable(connectedClients, readyState, c)

(***************************************************************************)
(* C25.  An envelope of type "register" whose userId is missing or empty   *)
(* changes neither the Registry nor an identity; with non-empty from and   *)
(* to it is routed as a Signal (forwarded to the open connection of to,    *)
(* else answered with the error envelope when its sender is open, else     *)
(* dropped), and otherwise nothing is written.                             *)
(***************************************************************************)
C25_RegisterWithoutUserId ==
    /\ last'.op = "message"
    /\ last'.msg[1].buffer.kind = "object"
    /\ last'.msg[1].buffer.body.type = "register"
    /\ ~ NonEmpty(last'.msg[1].buffer.body.userId)

\* C25: a register envelope without a userId registers nothing.
C25_NoUserIdNoRegistration ==
    [][C25_RegisterWithoutUserId =>
          LET body == last'.msg[1].buffer.body
          IN  /\ UNCHANGED <<connectedClients, userId>>
              /\ IF NonEmpty(body.from) /\ NonEmpty(body.to)
                 THEN IF body.to \in DOMAIN connectedClients
                         /\ readyState[connectedClients[body.to]] = "OPEN"
                      THEN last'.sent = <<[to |-> connectedClients[body.to],
                                           data |-> last'.msg[1].buffer]>>
                      ELSE IF readyState[last'.conn] = "OPEN"
                           THEN last'.sent = <<[to |-> last'.conn,
                                                data |-> ErrorText(body.from)]>>
                           ELSE last'.sent = <<>>
                 ELSE last'.sent = <<>>]_vars

\* A registered connection sent {type:"register", userId:""}: it was
\* ignored, and the connection still has its identity and its entry.
C25_Witness ==
    /\ last.op = "message"
    /\ last.msg[1].buffer.kind = "object"
    /\ last.msg[1].buffer.body.type = "register"
    /\ last.msg[1].buffer.body.userId = ""
    /\ last.sent = <<>>
    /\ prev = [branch |-> "register", conn |-> last.conn, key |-> userId[last.conn]]
    /\ Reachable(connectedClients, readyState, last.conn)

(***************************************************************************)
(* C26.  The liveness flag does not gate routing: a Signal addressed to    *)
(* the identity of an open connection is forwarded to it also when its     *)
(* flag is false, and handling a Signal sets no flag.                      *)
(***************************************************************************)
C26_FlagDoesNotGate ==
    [][last'.op = "message" /\ SignalEnvelope(last'.msg[1]) =>
          /\ \A r \in Conns :
                ( /\ isAlive[r] = FALSE /\ readyState[r] = "OPEN"
                  /\ last'.msg[1].buffer.body.to \in DOMAIN connectedClients
                  /\ connectedClients[last'.msg[1].buffer.body.to] = r )
                => last'.sent = <<[to |-> r, data |-> last'.msg[1].buffer]>>
          /\ isAlive' = isAlive]_vars

\* A Signal was forwarded to a connection whose flag is false, by a sender
\* whose flag is false too, and both flags are still false.
C26_Witness ==
    \E s, r \in Conns :
       /\ s # r
       /\ Forwarded(last, s, r)
       /\ userId[r] = last.msg[1].buffer.body.to
       /\ isAlive[r] = FALSE /\ isAlive[s] = FALSE
       /\ r \notin acked /\ s \notin acked

====
